---- MODULE Spec2Model ----
(***************************************************************************)
(* Model of the LUNA/Apollo SAMD21 UART driver                             *)
(* (firmware/src/boards/luna_d21/uart.c).                                  *)
(*                                                                         *)
(* The main execution context runs the public operations one source line   *)
(* at a time (pc); the receive interrupt handler SERCOM1_Handler preempts  *)
(* it (hpc); the SERCOM1 peripheral, the NVIC and the line driver are the  *)
(* environment (the Hw... actions).                                        *)
(***************************************************************************)
EXTENDS Integers, Sequences, FiniteSets, TLC

(***************************************************************************)
(* Bounds of the model.                                                    *)
(***************************************************************************)
\* number of receive-complete conditions the line driver produces
MaxRx == 2

(***************************************************************************)
(* 32-bit unsigned arithmetic.  A uint32_t is a pair <<hi, lo>> of 16-bit  *)
(* halves, so that every intermediate value stays below 2^31.              *)
(***************************************************************************)
W16 == 2^16

U32(n) == <<(n \div W16) % W16, n % W16>>

\* full 32-bit product of two 16-bit values
Mul16(x, y) ==
    LET p0  == x * (y % 256)
        p1  == x * (y \div 256)
        low == p0 + (p1 % 256) * 256
    IN  <<(p1 \div 256) + (low \div W16), low % W16>>

\* a * b, truncated to 32 bits
Mul32(a, b) ==
    LET p == Mul16(a[2], b[2])
    IN  <<(p[1] + Mul16(a[1], b[2])[2] + Mul16(a[2], b[1])[2]) % W16, p[2]>>

\* a + b, truncated to 32 bits
Add32(a, b) ==
    LET low == a[2] + b[2]
    IN  <<(a[1] + b[1] + (low \div W16)) % W16, low % W16>>

\* a - b, truncated to 32 bits (wraps below zero)
Sub32(a, b) ==
    LET low    == a[2] - b[2]
        borrow == IF low < 0 THEN 1 ELSE 0
    IN  <<(a[1] - b[1] - borrow) % W16, low % W16>>

\* a >> k, for 0 < k < 16
Shr32(a, k) ==
    <<a[1] \div 2^k, (a[2] \div 2^k) + (a[1] % 2^k) * 2^(16 - k)>>

\* value of a uint32_t whose top bit is clear
ToInt(a) == a[1] * W16 + a[2]

(***************************************************************************)
(* Program and hardware state.                                             *)
(***************************************************************************)
VARIABLES
    CONF_CPU_FREQUENCY, \* build-time clock frequency (peripheral_clk_config.h)
    shiftUB,            \* what the build makes of UINT32_C(1) << n, n >= 32
    pc,                 \* main context: source line about to execute, or "idle"
    retpc,              \* where uart_configure_pinmux returns to
    op,                 \* public operation the main context is executing
    configure_pinmux,   \* uart_init argument
    baudrate,           \* uart_init argument
    byte,               \* uart_(non)blocking_write argument
    ready,              \* last value returned by uart_ready_for_write
    hpc,                \* SERCOM1_Handler: source line, or "none"
    hbyte,              \* SERCOM1_Handler's local uint16_t byte
    sercom,             \* the SERCOM1 USART register block
    NVIC_SERCOM1,       \* SERCOM1_IRQn enabled at the interrupt controller
    NVIC_pending,       \* SERCOM1_IRQn pending at the interrupt controller
    busClock,           \* APBC bus clock of SERCOM1 requested
    gclkChannel,        \* SERCOM1 core clock channel requested
    uart_active,        \* bool uart_active
    PA00, PA01,         \* pin function of each pin
    rxLog,              \* data of every receive-complete condition so far
    cbLog,              \* <<condition index, argument>> of every callback call
    hidx,               \* index of the condition the handler has read
    rxDropped,          \* a software reset discarded an unread condition
    sent,               \* the byte the transmitter shifted out last
    txLost,             \* a pending byte was overwritten before being sent
    lastOp, prevOp,     \* the last two completed public operations
    atCall,             \* <<PA00, PA01, uart_active>> when lastOp was called
    everEnabled,        \* the hardware has confirmed an enable since power-up
    observe             \* which history is recorded: "rx", "tx" or "ops"

vars == <<CONF_CPU_FREQUENCY, shiftUB, pc, retpc, op, configure_pinmux,
          baudrate, byte, ready, hpc, hbyte, sercom, NVIC_SERCOM1,
          NVIC_pending, busClock,
          gclkChannel, uart_active, PA00, PA01, rxLog, cbLog, hidx, rxDropped,
          sent,
          txLost, lastOp, prevOp, atCall, everEnabled, observe>>

buildVars == <<CONF_CPU_FREQUENCY, shiftUB, observe>>
pinVars   == <<uart_active, PA00, PA01>>
clockVars == <<busClock, gclkChannel>>
rxVars    == <<rxLog, cbLog, hidx, hbyte>>
txVars    == <<sent, txLost>>
opVars    == <<lastOp, prevOp, atCall>>
argVars   == <<configure_pinmux, baudrate, byte, ready>>

(***************************************************************************)
(* Inputs.                                                                 *)
(***************************************************************************)
\* clock frequencies the driver targets
TargetClocks == {48000000, 8000000}
\* the clock frequency of the SAMD21 board, used in the full model
BoardClocks == {48000000}
\* further clock frequencies up to the 48 MHz maximum
OtherClocks == {1, 1000000, 12000000, 16000000, 32768, 47999999}
\* representative baud rates
StdBauds == {300, 9600, 19200, 38400, 57600, 115200, 230400}
\* further baud rates: the largest for 8 MHz and 48 MHz, and exact divisors
OtherBauds == {1, 15625, 46875, 500000, 3000000}
\* baud rates uart_init is called with in the full model
InitBauds == {9600, 115200}
\* values the 16-bit DATA register delivers
RxValues == {65, 321}
\* bytes written for transmission
TxValues == {65, 66}
\* the builds' treatments of a shift count that is not below the width
ShiftOutcomes == {"zero", "masked"}

Empty == -1

(***************************************************************************)
(* The baud divisor, uart.c lines 107-123.                                 *)
(***************************************************************************)
\* UINT32_C(1) << n.  UINT32_C(1) is a 32-bit unsigned constant, so a count
\* of 32 or more is undefined: a build either yields 0 or uses n modulo 32.
ShiftOne(n) ==
    IF n < 32 THEN U32(2^n)
    ELSE IF shiftUB = "zero" THEN U32(0)
    ELSE U32(2^(n % 32))

\* x / CONF_CPU_FREQUENCY for a uint32_t x (every dividend here is < 2^31)
DivByClock(x) == U32(ToInt(x) \div CONF_CPU_FREQUENCY)

\* x & 0x3FFU
Mask3FF(x) == <<0, x[2] % 1024>>

m1 == DivByClock(ShiftOne(32))
m2 == Mask3FF(DivByClock(ShiftOne(42)))
m3 == Mask3FF(DivByClock(ShiftOne(52)))
m4 == Mask3FF(DivByClock(ShiftOne(62)))

op4(b) == Shr32(Sub32(Mul32(U32(b), m4), U32(1)), 10)
op3(b) == Shr32(Add32(Mul32(U32(b), m3), op4(b)), 10)
op2(b) == Shr32(Add32(Mul32(U32(b), m2), op3(b)), 10)
op1(b) == Shr32(Add32(Mul32(U32(b), m1), op2(b)), 12)
baud(b) == Sub32(U32(65535), op1(b))

\* the exact product a * b does not fit in 32 bits
Mul32Wraps(a, b) ==
    \/ a[1] > 0 /\ b[1] > 0
    \/ Mul16(a[1], b[2])[1] > 0
    \/ Mul16(a[2], b[1])[1] > 0
    \/ Mul16(a[2], b[2])[1] + Mul16(a[1], b[2])[2] + Mul16(a[2], b[1])[2] >= W16

\* the exact sum a + b does not fit in 32 bits
Add32Wraps(a, b) == a[1] + b[1] + ((a[2] + b[2]) \div W16) >= W16

\* the exact difference a - b is below zero
Sub32Wraps(a, b) == a[1] < b[1] \/ (a[1] = b[1] /\ a[2] < b[2])

\* some operation of lines 118-122 leaves the range of uint32_t, or the
\* value subtracted from 65535 exceeds it
BaudWraps(b) ==
    \/ Mul32Wraps(U32(b), m4) \/ Sub32Wraps(Mul32(U32(b), m4), U32(1))
    \/ Mul32Wraps(U32(b), m3) \/ Add32Wraps(Mul32(U32(b), m3), op4(b))
    \/ Mul32Wraps(U32(b), m2) \/ Add32Wraps(Mul32(U32(b), m2), op3(b))
    \/ Mul32Wraps(U32(b), m1) \/ Add32Wraps(Mul32(U32(b), m1), op2(b))
    \/ Sub32Wraps(U32(65535), op1(b))

\* the value that lands in the 16-bit BAUD register
BaudReg(b) == baud(b)[2]

(***************************************************************************)
(* Independent reference: floor and remainder of 2^20 * b / f, by long     *)
(* division one binary digit at a time.                                     *)
(***************************************************************************)
RECURSIVE QuotRem(_, _, _)
QuotRem(qr, f, n) ==
    IF n = 0 THEN qr
    ELSE QuotRem(<<2 * qr[1] + ((2 * qr[2]) \div f), (2 * qr[2]) % f>>, f, n - 1)

Scaled(b, f) == QuotRem(<<b \div f, b % f>>, f, 20)

\* 65535 - floor(65536 * 16 * b / f)
RefFloor(b, f) == 65535 - Scaled(b, f)[1]

\* ((f << 16) - (b << 20)) / f, the vendor formula quoted at line 109
RefAtmel(b, f) ==
    65536 - Scaled(b, f)[1] - (IF Scaled(b, f)[2] = 0 THEN 0 ELSE 1)

(***************************************************************************)
(* The register block and the peripheral's behaviour.                      *)
(***************************************************************************)
\* register values after power-up or a software reset
SercomReset ==
    [ENABLE |-> FALSE, MODE |-> "reset", BAUD |-> 0,
     TXEN |-> FALSE, RXEN |-> FALSE, CHSIZE |-> 0,
     SB_ENABLE |-> FALSE, SB_SWRST |-> FALSE, SB_CTRLB |-> FALSE,
     INTEN_RXC |-> FALSE, RXC |-> FALSE, RXDATA |-> 0, TXDATA |-> Empty]

\* the peripheral runs: enabled, and the enable has been synchronised
Operational(s) == s.ENABLE /\ ~s.SB_ENABLE /\ ~s.SB_SWRST

\* a byte written to DATA waits for the running transmitter to take it
TxPending(s) == Operational(s) /\ s.TXEN /\ s.TXDATA # Empty

\* INTFLAG.DRE: the transmit data register can take a byte
INTFLAG_DRE(s) == Operational(s) /\ s.TXEN /\ s.TXDATA = Empty

\* the interrupt line SERCOM1 drives: INTFLAG masked by INTENSET
IrqLine(s) == s.INTEN_RXC /\ s.RXC

\* a read of DATA: the value, and the register block afterwards (the read
\* acknowledges the receive-complete condition)
ReadDATA(s) == <<s.RXDATA, [s EXCEPT !.RXC = FALSE]>>

\* variant: the write is dropped while a byte is pending
WriteDATA_gated(s, b) == IF s.TXDATA = Empty THEN [s EXCEPT !.TXDATA = b] ELSE s

\* a write of DATA
WriteDATA(s, b) == [s EXCEPT !.TXDATA = b]

\* variant: the callback is handed the 16-bit value unconverted
ToUint8_unconverted(x) == x

\* conversion of the uint16_t read from DATA to the callback's uint8_t
ToUint8(x) == x % 256

\* power-up, with the history variables recording `what`
PowerUp(what) ==
    /\ observe = what
    /\ CONF_CPU_FREQUENCY \in BoardClocks
    /\ shiftUB \in ShiftOutcomes
    /\ pc = "idle" /\ retpc = "idle" /\ op = "none"
    /\ configure_pinmux = FALSE /\ baudrate = 0 /\ byte = 0 /\ ready = FALSE
    /\ hpc = "none" /\ hbyte = 0 /\ hidx = 0
    /\ sercom = SercomReset
    /\ NVIC_SERCOM1 = FALSE /\ NVIC_pending = FALSE
    /\ busClock = FALSE /\ gclkChannel = FALSE
    /\ uart_active = FALSE /\ PA00 = "off" /\ PA01 = "off"
    /\ rxLog = <<>> /\ cbLog = <<>> /\ rxDropped = FALSE
    /\ sent = Empty /\ txLost = FALSE
    /\ lastOp = "none" /\ prevOp = "none" /\ atCall = <<"off", "off", FALSE>>
    /\ everEnabled = FALSE

\* the receive history (rxLog, cbLog) is recorded
Init == PowerUp("rx")

\* the transmit history (sent, txLost) is recorded
InitTx == PowerUp("tx")

\* the history of public operations is recorded
InitOps == PowerUp("ops")

\* the main context runs only while the handler is not active
Main(line) == pc = line /\ hpc = "none"

\* the main context calls a public operation
Call(name, first) ==
    /\ Main("idle")
    /\ pc' = first /\ op' = name /\ retpc' = "idle"
    /\ IF observe = "ops"
       THEN /\ prevOp' = lastOp /\ lastOp' = name
            /\ atCall' = <<PA00, PA01, uart_active>>
       ELSE UNCHANGED <<lastOp, prevOp, atCall>>

\* the public operation returns to its caller
Return ==
    /\ pc' = "idle" /\ op' = "none" /\ retpc' = "idle"
    /\ configure_pinmux' = FALSE /\ byte' = 0

\* the main context moves to another line
Goto(line) == pc' = line /\ UNCHANGED <<op, retpc>>

mainVars == <<pc, retpc, op>>
hwVars   == <<sercom, NVIC_SERCOM1, NVIC_pending>>
obsVars  == <<rxLog, cbLog, hidx, hbyte, rxDropped, sent, txLost, everEnabled>>

(***************************************************************************)
(* Pin multiplexing, uart.c lines 31-64.                                   *)
(***************************************************************************)
\* the main context leaves uart_configure_pinmux: back into uart_init when
\* called from there, else back to the caller of the public operation
LeavePinmux ==
    IF retpc = "idle"
    THEN Return
    ELSE /\ pc' = retpc /\ retpc' = "idle" /\ op' = op
         /\ UNCHANGED <<configure_pinmux, byte>>

uart_configure_pinmux ==
    /\ Call("uart_configure_pinmux", "L37")
    /\ UNCHANGED <<buildVars, argVars, hpc, hwVars, clockVars, pinVars, obsVars>>

\* gpio_set_pin_function(PIN_PA00, MUX_PA00D_SERCOM1_PAD0)
L37 ==
    /\ Main("L37")
    /\ PA00' = "SERCOM1_PAD0"
    /\ Goto("L38")
    /\ UNCHANGED <<buildVars, argVars, hpc, hwVars, clockVars, uart_active,
                   PA01, obsVars, opVars>>

\* gpio_set_pin_function(PIN_PA01, MUX_PA01D_SERCOM1_PAD1)
L38 ==
    /\ Main("L38")
    /\ PA01' = "SERCOM1_PAD1"
    /\ Goto("L52")
    /\ UNCHANGED <<buildVars, argVars, hpc, hwVars, clockVars, uart_active,
                   PA00, obsVars, opVars>>

\* uart_active = true
L52 ==
    /\ Main("L52")
    /\ uart_active' = TRUE
    /\ LeavePinmux
    /\ UNCHANGED <<buildVars, baudrate, ready, hpc, hwVars, clockVars, PA00, PA01,
                   obsVars, opVars>>

uart_release_pinmux ==
    /\ Call("uart_release_pinmux", "L40")
    /\ UNCHANGED <<buildVars, argVars, hpc, hwVars, clockVars, pinVars, obsVars>>

\* gpio_set_pin_function(PIN_PA00, GPIO_PIN_FUNCTION_OFF)
L40 ==
    /\ Main("L40")
    /\ PA00' = "off"
    /\ Goto("L41")
    /\ UNCHANGED <<buildVars, argVars, hpc, hwVars, clockVars, uart_active,
                   PA01, obsVars, opVars>>

\* variant: PA00 is released a second time and PA01 is left alone
L41_wrong_pin ==
    /\ Main("L41")
    /\ PA00' = "off"
    /\ Goto("L63")
    /\ UNCHANGED <<buildVars, argVars, hpc, hwVars, clockVars, uart_active,
                   PA01, obsVars, opVars>>

\* gpio_set_pin_function(PIN_PA01, GPIO_PIN_FUNCTION_OFF)
L41 ==
    /\ Main("L41")
    /\ PA01' = "off"
    /\ Goto("L63")
    /\ UNCHANGED <<buildVars, argVars, hpc, hwVars, clockVars, uart_active,
                   PA00, obsVars, opVars>>

\* variant: the flag is left as it was
L63_flag_kept ==
    /\ Main("L63")
    /\ Return
    /\ UNCHANGED <<buildVars, baudrate, ready, hpc, hwVars, clockVars, pinVars,
                   obsVars, opVars>>

\* variant: the flag is toggled
L63_flag_toggled ==
    /\ Main("L63")
    /\ uart_active' = ~uart_active
    /\ Return
    /\ UNCHANGED <<buildVars, baudrate, ready, hpc, hwVars, clockVars, PA00, PA01,
                   obsVars, opVars>>

\* uart_active = false
L63 ==
    /\ Main("L63")
    /\ uart_active' = FALSE
    /\ Return
    /\ UNCHANGED <<buildVars, baudrate, ready, hpc, hwVars, clockVars, PA00, PA01,
                   obsVars, opVars>>

(***************************************************************************)
(* Register writes of uart_init.                                           *)
(***************************************************************************)
\* variant: the bit is written and no synchronisation is ever signalled
WriteENABLE_unsynchronised(s, v) == [s EXCEPT !.ENABLE = v]

\* CTRLA.bit.ENABLE = v: a change of the bit is synchronised by the hardware
WriteENABLE(s, v) ==
    [s EXCEPT !.ENABLE = v, !.SB_ENABLE = (s.SB_ENABLE \/ s.ENABLE # v)]

\* CTRLA.bit.SWRST = 1: every register takes its initial value at once, and
\* SYNCBUSY.SWRST stays set until the reset is complete
WriteSWRST(s) ==
    [SercomReset EXCEPT !.SB_SWRST = TRUE, !.SB_ENABLE = s.SB_ENABLE]

\* variant: the mode word is written with the enable bit set
WriteCTRLA_enabling(s) == WriteENABLE([s EXCEPT !.MODE = "USART_INT_CLK"], TRUE)

\* CTRLA.reg = DORD | TXPO(0) | RXPO(1) | SAMPR(0) | RUNSTDBY | USART_INT_CLK
WriteCTRLA(s) == WriteENABLE([s EXCEPT !.MODE = "USART_INT_CLK"], FALSE)

\* BAUD.reg = v
WriteBAUD(s, v) == [s EXCEPT !.BAUD = v % W16]

\* CTRLB.reg = CHSIZE(0) | TXEN | RXEN
WriteCTRLB(s) ==
    [s EXCEPT !.CHSIZE = 0, !.TXEN = TRUE, !.RXEN = TRUE, !.SB_CTRLB = TRUE]

\* INTENSET.reg = RXC
WriteINTENSET(s) == [s EXCEPT !.INTEN_RXC = TRUE]

(***************************************************************************)
(* uart_init, uart.c lines 71-146, one action per statement.               *)
(***************************************************************************)
uart_init(p, b) ==
    /\ Call("uart_init", "L75")
    /\ configure_pinmux' = p /\ baudrate' = b
    /\ UNCHANGED <<buildVars, byte, ready, hpc, hwVars, clockVars, pinVars,
                   obsVars>>

\* a statement of uart_init that touches only the register block
InitStep(line, next, s) ==
    /\ Main(line)
    /\ sercom' = s
    /\ rxDropped' = (rxDropped \/ (observe = "rx" /\ sercom.RXC /\ ~s.RXC))
    /\ Goto(next)
    /\ UNCHANGED <<buildVars, argVars, hpc, NVIC_SERCOM1, NVIC_pending,
                   clockVars, pinVars, rxLog, cbLog, hidx, hbyte, sent,
                   txLost, everEnabled, opVars>>

\* while(sercom->USART.SYNCBUSY.bit.ENABLE);
L75 == ~sercom.SB_ENABLE /\ InitStep("L75", "L76", sercom)

\* sercom->USART.CTRLA.bit.ENABLE = 0;
L76 == InitStep("L76", "L79", WriteENABLE(sercom, FALSE))

\* while(sercom->USART.SYNCBUSY.bit.SWRST);
L79 == ~sercom.SB_SWRST /\ InitStep("L79", "L80", sercom)

\* variant: no software reset is requested
L80_no_reset == InitStep("L80", "L84", sercom)

\* sercom->USART.CTRLA.bit.SWRST = 1;
L80 == InitStep("L80", "L84", WriteSWRST(sercom))

\* variant: the poll of the reset gives up while the bit is still set
L84_timeout == InitStep("L84", "L87", sercom)

\* while(sercom->USART.SYNCBUSY.bit.SWRST);
L84 == ~sercom.SB_SWRST /\ InitStep("L84", "L87", sercom)

\* variant: the poll waits for the reset bit only
L87_reset_only == ~sercom.SB_SWRST /\ InitStep("L87", "L90", sercom)

\* while(SYNCBUSY.bit.SWRST || SYNCBUSY.bit.ENABLE);
L87 == ~(sercom.SB_SWRST \/ sercom.SB_ENABLE) /\ InitStep("L87", "L90", sercom)

\* variant: the pins are attached whatever configure_pinmux says
L90_unconditional ==
    /\ Main("L90")
    /\ pc' = "L37" /\ retpc' = "L95" /\ op' = op
    /\ UNCHANGED <<buildVars, argVars, hpc, hwVars, clockVars, pinVars,
                   obsVars, opVars>>

\* if (configure_pinmux) { uart_configure_pinmux(); }
L90 ==
    /\ Main("L90")
    /\ IF configure_pinmux
       THEN pc' = "L37" /\ retpc' = "L95" /\ op' = op
       ELSE Goto("L95")
    /\ UNCHANGED <<buildVars, argVars, hpc, hwVars, clockVars, pinVars,
                   obsVars, opVars>>

\* _pm_enable_bus_clock(PM_BUS_APBC, SERCOM1);
L95 ==
    /\ Main("L95")
    /\ busClock' = TRUE
    /\ Goto("L96")
    /\ UNCHANGED <<buildVars, argVars, hpc, hwVars, gclkChannel, pinVars,
                   obsVars, opVars>>

\* _gclk_enable_channel(SERCOM1_GCLK_ID_CORE, GCLK_CLKCTRL_GEN_GCLK0_Val);
L96 ==
    /\ Main("L96")
    /\ gclkChannel' = TRUE
    /\ Goto("L99")
    /\ UNCHANGED <<buildVars, argVars, hpc, hwVars, busClock, pinVars,
                   obsVars, opVars>>

\* sercom->USART.CTRLA.reg = ...;
L99 == InitStep("L99", "L123", WriteCTRLA(sercom))

\* sercom->USART.BAUD.reg = baud;
L123 == InitStep("L123", "L126", WriteBAUD(sercom, BaudReg(baudrate)))

\* sercom->USART.CTRLB.reg = ...;
L126 == InitStep("L126", "L133", WriteCTRLB(sercom))

\* variant: the CTRLB write is not awaited
L133_unpolled == InitStep("L133", "L137", sercom)

\* while (sercom->USART.SYNCBUSY.bit.CTRLB);
L133 == ~sercom.SB_CTRLB /\ InitStep("L133", "L137", sercom)

\* sercom->USART.INTENSET.reg = SERCOM_USART_INTENSET_RXC;
L137 == InitStep("L137", "L140", WriteINTENSET(sercom))

\* NVIC_EnableIRQ(SERCOM1_IRQn);
L140 ==
    /\ Main("L140")
    /\ NVIC_SERCOM1' = TRUE
    /\ Goto("L143")
    /\ UNCHANGED <<buildVars, argVars, hpc, sercom, NVIC_pending, clockVars,
                   pinVars, obsVars, opVars>>

\* sercom->USART.CTRLA.bit.ENABLE = 1;
L143 == InitStep("L143", "L144", WriteENABLE(sercom, TRUE))

\* variant: the last poll waits for the bit to be set
L144_inverted ==
    /\ Main("L144")
    /\ sercom.SB_ENABLE
    /\ Return
    /\ UNCHANGED <<buildVars, baudrate, ready, hpc, hwVars, clockVars, pinVars,
                   obsVars, opVars>>

\* while(sercom->USART.SYNCBUSY.bit.ENABLE);  and the return
L144 ==
    /\ Main("L144")
    /\ ~sercom.SB_ENABLE
    /\ Return
    /\ UNCHANGED <<buildVars, baudrate, ready, hpc, hwVars, clockVars, pinVars,
                   obsVars, opVars>>

(***************************************************************************)
(* The receive interrupt, uart.c lines 149-168.                            *)
(***************************************************************************)
\* the interrupt controller latches the asserted line as pending
NvicLatch ==
    /\ hpc = "none"
    /\ IrqLine(sercom) /\ ~NVIC_pending
    /\ NVIC_pending' = TRUE
    /\ UNCHANGED <<buildVars, mainVars, argVars, hpc, sercom, NVIC_SERCOM1,
                   clockVars, pinVars, obsVars, opVars>>

\* the interrupt controller enters SERCOM1_Handler for the pending,
\* enabled interrupt; the handler is not re-entered while it runs
IrqEntry ==
    /\ hpc = "none"
    /\ NVIC_SERCOM1 /\ NVIC_pending
    /\ hpc' = "H161" /\ NVIC_pending' = FALSE
    /\ UNCHANGED <<buildVars, mainVars, argVars, sercom, NVIC_SERCOM1,
                   clockVars, pinVars, obsVars, opVars>>

\* variant: the data register is read whatever INTFLAG.RXC says
H161_unchecked ==
    /\ hpc = "H161"
    /\ hpc' = "H165"
    /\ UNCHANGED <<buildVars, mainVars, argVars, hwVars, clockVars, pinVars,
                   obsVars, opVars>>

\* if (sercom->USART.INTFLAG.bit.RXC)
H161 ==
    /\ hpc = "H161"
    /\ hpc' = IF sercom.RXC THEN "H165" ELSE "none"
    /\ UNCHANGED <<buildVars, mainVars, argVars, hwVars, clockVars, pinVars,
                   obsVars, opVars>>

\* uint16_t byte = sercom->USART.DATA.reg;
H165 ==
    /\ hpc = "H165"
    /\ hbyte' = ReadDATA(sercom)[1]
    /\ sercom' = ReadDATA(sercom)[2]
    /\ hidx' = Len(rxLog)
    /\ hpc' = "H166"
    /\ UNCHANGED <<buildVars, mainVars, argVars, NVIC_SERCOM1, NVIC_pending, clockVars,
                   pinVars, rxLog, cbLog, rxDropped, sent, txLost,
                   everEnabled, opVars>>

\* uart_byte_received_cb(byte);  and the return
H166 ==
    /\ hpc = "H166"
    /\ cbLog' = IF observe = "rx"
                THEN Append(cbLog, <<hidx, ToUint8(hbyte)>>) ELSE cbLog
    /\ hpc' = "none" /\ hbyte' = 0 /\ hidx' = 0
    /\ UNCHANGED <<buildVars, mainVars, argVars, hwVars, clockVars, pinVars,
                   rxLog, rxDropped, sent, txLost, everEnabled, opVars>>

(***************************************************************************)
(* The transfer path, uart.c lines 172-203.                                *)
(***************************************************************************)
uart_ready_for_write ==
    /\ Call("uart_ready_for_write", "L177")
    /\ UNCHANGED <<buildVars, argVars, hpc, hwVars, clockVars, pinVars, obsVars>>

\* return (sercom->USART.INTFLAG.reg & SERCOM_USART_INTFLAG_DRE);
L177 ==
    /\ Main("L177")
    /\ ready' = INTFLAG_DRE(sercom)
    /\ Return
    /\ UNCHANGED <<buildVars, baudrate, hpc, hwVars,
                   clockVars, pinVars, obsVars, opVars>>

uart_nonblocking_write(b) ==
    /\ Call("uart_nonblocking_write", "L189")
    /\ byte' = b
    /\ UNCHANGED <<buildVars, configure_pinmux, baudrate, ready, hpc, hwVars,
                   clockVars, pinVars, obsVars>>

\* sercom->USART.DATA.reg = byte;
L189 ==
    /\ Main("L189")
    /\ sercom' = WriteDATA(sercom, byte)
    /\ txLost' = (txLost \/ (observe = "tx" /\ TxPending(sercom)))
    /\ Return
    /\ UNCHANGED <<buildVars, baudrate, ready, hpc, NVIC_SERCOM1, NVIC_pending, clockVars, pinVars,
                   rxLog, cbLog, hidx, hbyte, rxDropped, sent, everEnabled,
                   opVars>>

uart_blocking_write(b) ==
    /\ Call("uart_blocking_write", "L201")
    /\ byte' = b
    /\ UNCHANGED <<buildVars, configure_pinmux, baudrate, ready, hpc, hwVars,
                   clockVars, pinVars, obsVars>>

\* variant: the byte is written after one look at the flag, set or not
L201_single_check ==
    /\ Main("L201")
    /\ ready' = INTFLAG_DRE(sercom)
    /\ Goto("L189")
    /\ UNCHANGED <<buildVars, configure_pinmux, baudrate, byte, hpc, hwVars,
                   clockVars, pinVars, obsVars, opVars>>

\* while(!uart_ready_for_write());  then  uart_nonblocking_write(byte);
L201 ==
    /\ Main("L201")
    /\ ready' = INTFLAG_DRE(sercom)
    /\ Goto(IF INTFLAG_DRE(sercom) THEN "L189" ELSE "L201")
    /\ UNCHANGED <<buildVars, configure_pinmux, baudrate, byte, hpc, hwVars,
                   clockVars, pinVars, obsVars, opVars>>

(***************************************************************************)
(* The environment: the peripheral's own steps.                            *)
(***************************************************************************)
HwStep(s) ==
    /\ sercom' = s
    /\ UNCHANGED <<buildVars, mainVars, argVars, hpc, NVIC_SERCOM1, NVIC_pending, clockVars,
                   pinVars, cbLog, hidx, hbyte, rxDropped, txLost, opVars>>

\* the enable or disable has been synchronised: SYNCBUSY.ENABLE clears
HwSyncEnable ==
    /\ sercom.SB_ENABLE
    /\ HwStep([sercom EXCEPT !.SB_ENABLE = FALSE])
    /\ everEnabled' = (everEnabled \/ sercom.ENABLE)
    /\ UNCHANGED <<rxLog, sent>>

\* the software reset completes: SYNCBUSY.SWRST clears
HwSwrstDone ==
    /\ sercom.SB_SWRST
    /\ HwStep([sercom EXCEPT !.SB_SWRST = FALSE])
    /\ UNCHANGED <<rxLog, sent, everEnabled>>

\* the CTRLB write has been applied: SYNCBUSY.CTRLB clears
HwSyncCtrlb ==
    /\ sercom.SB_CTRLB
    /\ HwStep([sercom EXCEPT !.SB_CTRLB = FALSE])
    /\ UNCHANGED <<rxLog, sent, everEnabled>>

\* a character has been received: a receive-complete condition with data d
HwReceive(d) ==
    /\ Operational(sercom) /\ sercom.RXEN /\ ~sercom.RXC
    /\ Len(rxLog) < MaxRx
    /\ HwStep([sercom EXCEPT !.RXC = TRUE, !.RXDATA = d])
    /\ rxLog' = IF observe = "rx" THEN Append(rxLog, d) ELSE rxLog
    /\ UNCHANGED <<sent, everEnabled>>

\* the transmitter takes the byte in DATA and shifts it out
HwTransmit ==
    /\ TxPending(sercom)
    /\ HwStep([sercom EXCEPT !.TXDATA = Empty])
    /\ sent' = IF observe = "tx" THEN sercom.TXDATA ELSE sent
    /\ UNCHANGED <<rxLog, everEnabled>>

(***************************************************************************)
(* The specifications.                                                     *)
(***************************************************************************)
Next ==
    \/ \E p \in BOOLEAN, b \in InitBauds : uart_init(p, b)
    \/ L75 \/ L76 \/ L79 \/ L80 \/ L84 \/ L87 \/ L90 \/ L95 \/ L96 \/ L99
    \/ L123 \/ L126 \/ L133 \/ L137 \/ L140 \/ L143 \/ L144
    \/ uart_configure_pinmux \/ L37 \/ L38 \/ L52
    \/ uart_release_pinmux \/ L40 \/ L41 \/ L63
    \/ uart_ready_for_write \/ L177
    \/ \E b \in TxValues : uart_nonblocking_write(b)
    \/ L189
    \/ \E b \in TxValues : uart_blocking_write(b)
    \/ L201
    \/ NvicLatch \/ IrqEntry \/ H161 \/ H165 \/ H166
    \/ HwSyncEnable \/ HwSwrstDone \/ HwSyncCtrlb
    \/ \E d \in RxValues : HwReceive(d)
    \/ HwTransmit

Spec == Init /\ [][Next]_vars

\* The baud computation alone: uart_init(false, b), first call after
\* power-up, about to execute line 123, for a wider set of clocks and rates.
InitBaud ==
    /\ observe = "rx"
    /\ CONF_CPU_FREQUENCY \in TargetClocks \cup OtherClocks
    /\ shiftUB \in ShiftOutcomes
    /\ pc = "L123" /\ retpc = "idle" /\ op = "uart_init"
    /\ configure_pinmux = FALSE /\ baudrate \in StdBauds \cup OtherBauds
    /\ byte = 0 /\ ready = FALSE
    /\ hpc = "none" /\ hbyte = 0 /\ hidx = 0
    /\ sercom = [SercomReset EXCEPT !.MODE = "USART_INT_CLK"]
    /\ NVIC_SERCOM1 = FALSE /\ NVIC_pending = FALSE
    /\ busClock = TRUE /\ gclkChannel = TRUE
    /\ uart_active = FALSE /\ PA00 = "off" /\ PA01 = "off"
    /\ rxLog = <<>> /\ cbLog = <<>> /\ rxDropped = FALSE
    /\ sent = Empty /\ txLost = FALSE
    /\ lastOp = "uart_init" /\ prevOp = "none"
    /\ atCall = <<"off", "off", FALSE>>
    /\ everEnabled = FALSE

NextBaud == L123

SpecTx == InitTx /\ [][Next]_vars

SpecOps == InitOps /\ [][Next]_vars

SpecBaud == InitBaud /\ [][NextBaud]_vars

\* The calls that can wait on the hardware, uart_init and
\* uart_blocking_write, alone with the handler and the peripheral; no history
\* is recorded.
InitLive == PowerUp("none")

\* a statement of uart_init or of uart_blocking_write
MainStep ==
    \/ L75 \/ L76 \/ L79 \/ L80 \/ L84 \/ L87 \/ L90 \/ L37 \/ L38 \/ L52
    \/ L95 \/ L96 \/ L99 \/ L123 \/ L126 \/ L133 \/ L137 \/ L140 \/ L143
    \/ L144 \/ L201 \/ L189

\* a statement of SERCOM1_Handler
HandlerStep == H161 \/ H165 \/ H166

NextLive ==
    \/ \E p \in BOOLEAN, b \in InitBauds : uart_init(p, b)
    \/ \E b \in TxValues : uart_blocking_write(b)
    \/ MainStep
    \/ NvicLatch \/ IrqEntry \/ HandlerStep
    \/ HwSyncEnable \/ HwSwrstDone \/ HwSyncCtrlb
    \/ \E d \in RxValues : HwReceive(d)
    \/ HwTransmit

\* line 123 with the computed value left open: under Next its steps are the
\* steps of L123, and it is enabled exactly when L123 is
L123_any_value ==
    /\ Main("L123")
    /\ \E v \in 0..(W16 - 1) : InitStep("L123", "L126", WriteBAUD(sercom, v))

\* The main context executes the statement it is at (for fairness the value
\* line 123 writes plays no part).
MainRuns ==
    \/ L75 \/ L76 \/ L79 \/ L80 \/ L84 \/ L87 \/ L90 \/ L37 \/ L38 \/ L52
    \/ L95 \/ L96 \/ L99 \/ L123_any_value \/ L126 \/ L133 \/ L137 \/ L140
    \/ L143 \/ L144 \/ L201 \/ L189

\* The processor runs SERCOM1_Handler to its return once entered, and runs
\* the main context whenever no handler is active, however often it is
\* interrupted; the peripheral completes every synchronisation it starts and
\* shifts out a pending byte.  Callers and the line are not obliged to act.
Fairness ==
    /\ SF_vars(MainRuns)
    /\ WF_vars(HandlerStep)
    /\ WF_vars(HwSyncEnable) /\ WF_vars(HwSwrstDone) /\ WF_vars(HwSyncCtrlb)
    /\ WF_vars(HwTransmit)

SpecFair == InitLive /\ [][NextLive]_vars /\ Fairness

(***************************************************************************)
(* Properties.                                                             *)
(***************************************************************************)
\* C1: for the representative baud rates and the two target clocks, the
\* value uart_init writes to BAUD is 65535 - floor(65536 * 16 * baud / clock).
C1_BaudEqualsReference ==
    (pc = "L126" /\ baudrate \in StdBauds /\ CONF_CPU_FREQUENCY \in TargetClocks)
        => sercom.BAUD = RefFloor(baudrate, CONF_CPU_FREQUENCY)

\* C2: for every clock up to 48 MHz and every baud rate with
\* 0 < baud <= clock / 16, the value written to BAUD is the integer quotient
\* ((clock << 16) - (baud << 20)) / clock.
C2_BaudExactUpTo48MHz ==
    (pc = "L126" /\ baudrate > 0 /\ 16 * baudrate <= CONF_CPU_FREQUENCY)
        => sercom.BAUD = RefAtmel(baudrate, CONF_CPU_FREQUENCY)

\* the register state uart_init leaves, the BAUD register apart
InitConfigured ==
    /\ sercom.ENABLE /\ ~sercom.SB_ENABLE
    /\ sercom.INTEN_RXC /\ NVIC_SERCOM1
    /\ sercom.TXEN /\ sercom.RXEN /\ sercom.CHSIZE = 0

\* uart_init is about to return: its last poll has seen SYNCBUSY.ENABLE clear
InitReturns == pc = "L144" /\ hpc = "none" /\ ~sercom.SB_ENABLE

\* C3: whenever uart_init(configure_pinmux, baudrate) returns, the peripheral
\* is enabled with no enable synchronisation pending, the receive interrupt
\* is unmasked at the peripheral and at the interrupt controller, transmit
\* and receive are on with 8-bit words, and BAUD holds the reference value.
C3_InitPostcondition ==
    InitReturns =>
        (InitConfigured /\ sercom.BAUD = RefFloor(baudrate, CONF_CPU_FREQUENCY))

WriteStep == pc = "L189" /\ pc' = "idle"

\* C6 (as claimed): a uart_nonblocking_write made while uart_ready_for_write()
\* is false never corrupts a pending transmission, that is, no byte pending
\* in the data register is ever overwritten before it is shifted out.
C6_WriteNeverCorrupts == ~txLost

\* C6 (amended): uart_nonblocking_write writes the data register
\* unconditionally, so the byte it is given is in DATA afterwards; only a call
\* made while uart_ready_for_write() is true leaves the pending transmission
\* intact, a call made while it is false may overwrite the pending byte.
C6_WriteUnconditional ==
    [][WriteStep =>
          /\ sercom'.TXDATA = byte
          /\ INTFLAG_DRE(sercom) => (txLost' = txLost)]_vars

\* C6 witness: on the running peripheral a pending byte has been overwritten
\* by a second write, and the second byte is now the pending one
C6_Witness ==
    /\ txLost /\ Operational(sercom) /\ sercom.TXEN
    /\ sercom.TXDATA = 66 /\ ~INTFLAG_DRE(sercom) /\ pc = "idle"

BothPinsUart == PA00 = "SERCOM1_PAD0" /\ PA01 = "SERCOM1_PAD1"
BothPinsOff  == PA00 = "off" /\ PA01 = "off"

\* C7: between public operations uart_active is true exactly when both pins
\* carry their SERCOM1 pad function, and the pins are never in different
\* roles; the flag does not follow the peripheral's enable bit.
C7_ActiveIffPinsAttached ==
    pc = "idle" =>
        /\ uart_active <=> BothPinsUart
        /\ BothPinsUart \/ BothPinsOff

\* C7 witness: uart_init(false, b) has returned on released pins: the
\* peripheral is enabled and uart_active is false
C7_Witness ==
    /\ pc = "idle" /\ lastOp = "uart_init" /\ prevOp = "uart_release_pinmux"
    /\ sercom.ENABLE /\ ~uart_active /\ BothPinsOff

\* C8: uart_configure_pinmux followed by uart_release_pinmux leaves both pins
\* unconfigured and uart_active false.
C8_AttachDetachRoundTrip ==
    (pc = "idle" /\ prevOp = "uart_configure_pinmux"
                 /\ lastOp = "uart_release_pinmux")
        => (BothPinsOff /\ ~uart_active)

\* C8 witness: the round trip has been made, and the release started from
\* attached pins
C8_Witness ==
    /\ pc = "idle" /\ prevOp = "uart_configure_pinmux"
    /\ lastOp = "uart_release_pinmux"
    /\ atCall = <<"SERCOM1_PAD0", "SERCOM1_PAD1", TRUE>>
    /\ BothPinsOff /\ ~uart_active

\* C9: a second uart_release_pinmux right after a first one leaves the pin
\* roles and uart_active as the first one left them, uart_active false.
C9_ReleaseIdempotent ==
    (pc = "idle" /\ prevOp = "uart_release_pinmux"
                 /\ lastOp = "uart_release_pinmux")
        => (<<PA00, PA01, uart_active>> = atCall /\ ~uart_active)

\* C9 witness: two releases in succession have completed
C9_Witness ==
    /\ pc = "idle" /\ prevOp = "uart_release_pinmux"
    /\ lastOp = "uart_release_pinmux" /\ BothPinsOff /\ ~uart_active

\* C10: uart_active and the pin roles change only inside
\* uart_configure_pinmux, uart_release_pinmux and uart_init called with
\* configure_pinmux true; never in uart_init(false, b), the transfer
\* operations or SERCOM1_Handler.
C10_PinStateFrame ==
    [][(<<PA00, PA01, uart_active>>' # <<PA00, PA01, uart_active>>) =>
          /\ hpc = "none" /\ hpc' = "none"
          /\ \/ op = "uart_configure_pinmux"
             \/ op = "uart_release_pinmux"
             \/ op = "uart_init" /\ configure_pinmux]_vars

\* C10 witness: a second uart_init, called with configure_pinmux false, has
\* disabled the running peripheral and uart_active is still true
C10_Witness ==
    /\ op = "uart_init" /\ ~configure_pinmux /\ pc = "L79"
    /\ everEnabled /\ ~sercom.ENABLE
    /\ uart_active /\ BothPinsUart

\* uart_init is at one of its polls and the bit that poll reads is set
PollBusy ==
    /\ op = "uart_init"
    /\ \/ pc \in {"L75", "L144"} /\ sercom.SB_ENABLE
       \/ pc \in {"L79", "L84"} /\ sercom.SB_SWRST
       \/ pc = "L87" /\ (sercom.SB_SWRST \/ sercom.SB_ENABLE)
       \/ pc = "L133" /\ sercom.SB_CTRLB

\* what uart_init writes: configuration registers, interrupt enables, clock
\* requests, pin roles and uart_active
InitWrites ==
    <<sercom.ENABLE, sercom.MODE, sercom.BAUD, sercom.TXEN, sercom.RXEN,
      sercom.CHSIZE, sercom.INTEN_RXC, NVIC_SERCOM1, busClock, gclkChannel,
      PA00, PA01, uart_active>>

\* C11: no poll of uart_init has a timeout: as long as the synchronisation
\* busy bit it polls (ENABLE, SWRST or CTRLB) is set, uart_init stays at that
\* poll, makes none of the later register writes, pin changes, clock requests
\* or interrupt enables, and does not return.
C11_PollsNeverTimeOut ==
    [][PollBusy => (pc' = pc /\ op' = op /\ InitWrites' = InitWrites)]_vars

\* C11 witness: a re-initialisation waits at the line 84 poll for the
\* software reset to complete
C11_Witness ==
    /\ op = "uart_init" /\ pc = "L84" /\ sercom.SB_SWRST /\ everEnabled

\* C12: uart_init makes each configuration write (CTRLA, BAUD, CTRLB) with
\* the enable bit clear, the software reset complete and neither
\* SYNCBUSY.ENABLE nor SYNCBUSY.SWRST set, also when called on an enabled
\* peripheral; it disables first, then resets, then configures the registers
\* from their reset values, and enables last.
C12_ConfigureAfterReset ==
    op = "uart_init" =>
        /\ pc \notin {"L75", "L76", "L144"} => ~sercom.ENABLE
        /\ pc \in {"L99", "L123", "L126"} =>
              ~(sercom.ENABLE \/ sercom.SB_ENABLE \/ sercom.SB_SWRST)
        /\ pc = "L99" => sercom = SercomReset
        /\ pc = "L123" => sercom = [SercomReset EXCEPT !.MODE = "USART_INT_CLK"]
        /\ pc = "L126" =>
              sercom = [SercomReset EXCEPT !.MODE = "USART_INT_CLK",
                                           !.BAUD = BaudReg(baudrate)]

\* C12 witness: a uart_init called on the enabled peripheral is about to
\* write CTRLB
C12_Witness ==
    /\ op = "uart_init" /\ pc = "L126" /\ everEnabled /\ NVIC_SERCOM1
    /\ sercom.MODE = "USART_INT_CLK"

\* C13: uart_init unmasks the receive-complete interrupt at the peripheral
\* only once the CTRLB write is acknowledged (SYNCBUSY.CTRLB clear), enables
\* the line at the interrupt controller only once the source is unmasked, and
\* sets the enable bit only after both.
C13_ArmingOrder ==
    [][/\ (pc = "L137" /\ pc' = "L140") =>
              (~sercom.SB_CTRLB /\ sercom.TXEN /\ sercom.RXEN
                  /\ sercom'.INTEN_RXC)
       /\ (~sercom.INTEN_RXC /\ sercom'.INTEN_RXC) =>
              (pc = "L137" /\ ~sercom.SB_CTRLB)
       /\ (pc = "L140" /\ pc' = "L143") => (sercom.INTEN_RXC /\ NVIC_SERCOM1')
       /\ (~NVIC_SERCOM1 /\ NVIC_SERCOM1') => (pc = "L140" /\ sercom.INTEN_RXC)
       /\ (~sercom.ENABLE /\ sercom'.ENABLE) =>
              (pc = "L143" /\ sercom.INTEN_RXC /\ NVIC_SERCOM1
                  /\ ~sercom.SB_CTRLB)]_vars

\* C13 witness: the source is unmasked and the line enabled, and uart_init
\* is about to set the enable bit for the first time
C13_Witness ==
    /\ op = "uart_init" /\ pc = "L143" /\ ~everEnabled
    /\ sercom.INTEN_RXC /\ NVIC_SERCOM1 /\ ~sercom.ENABLE

\* C14: uart_blocking_write writes DATA once per call, with the byte it was
\* given, and only after a ready check returned true; whatever the handler
\* does in between, the data register is still empty at the write, so no
\* pending byte is overwritten; and on a running transmitter, where the
\* hardware eventually sets the data-register-empty flag, the call returns.
C14_BlockingWrite ==
    /\ [](op = "uart_blocking_write" /\ pc = "L189" =>
              ready /\ INTFLAG_DRE(sercom))
    /\ [][op = "uart_blocking_write" =>
              /\ WriteStep => (sercom'.TXDATA = byte /\ ~TxPending(sercom))
              /\ sercom'.TXDATA \notin {sercom.TXDATA, Empty} => WriteStep]_vars
    /\ (op = "uart_blocking_write" /\ Operational(sercom) /\ sercom.TXEN)
           ~> (op = "none")

\* C14 witness: a blocking write has seen the data register empty and is
\* about to write its byte; the handler has preempted it in between and
\* another character has arrived
C14_Witness ==
    /\ op = "uart_blocking_write" /\ pc = "L189" /\ byte = 66
    /\ ready /\ hpc = "H166" /\ INTFLAG_DRE(sercom) /\ sercom.RXC

\* SERCOM1_Handler returns
HandlerReturns == hpc # "none" /\ hpc' = "none"

\* C15 (as claimed): every invocation of SERCOM1_Handler reads the data
\* register exactly once, that is, it returns only after its read of DATA,
\* with the receive-complete flag of the byte it read no longer set.
C15_ReadsExactlyOnce ==
    [][HandlerReturns =>
          (hpc = "H166" /\ ~(sercom.RXC /\ Len(rxLog) = hidx))]_vars

\* C15 (amended): an invocation of SERCOM1_Handler reads the data register
\* at most once: once if INTFLAG.RXC is set when the handler tests it, not at
\* all if it is clear, in which case the handler returns without a callback.
\* The read clears the receive-complete condition, so when the handler
\* returns after a read the flag of the byte it read is no longer set.
C15_ReadsOnceIfFlagSet ==
    [][/\ hpc = "H161" => hpc' \in {"H161", IF sercom.RXC THEN "H165" ELSE "none"}
       /\ hpc = "H165" => hpc' \in {"H165", "H166"}
       /\ hpc = "H166" => hpc' \in {"H166", "none"}
       /\ (hpc = "H165" /\ hpc' = "H166") =>
              (sercom.RXC /\ ~sercom'.RXC /\ hbyte' = sercom.RXDATA)
       /\ (sercom.RXC /\ ~sercom'.RXC /\ hpc # "none") => hpc = "H165"
       /\ (HandlerReturns /\ hpc = "H166") =>
              ~(sercom.RXC /\ Len(rxLog) = hidx)]_vars

\* C15 witness: the handler has been entered for a condition that a software
\* reset has since cleared, and is about to test the flag
C15_Witness ==
    /\ hpc = "H161" /\ ~sercom.RXC /\ rxDropped /\ op = "uart_init"

\* C16: if the hardware clears every synchronisation busy bit it sets, every
\* call of uart_init returns, on the peripheral as powered up and on the
\* peripheral as an earlier uart_init left it, whatever the handler does.
C16_InitTerminates == (op = "uart_init") ~> (op = "none")

\* C16 witness: a uart_init called on the running peripheral, with a
\* character received meanwhile, has seen its last poll succeed
C16_Witness ==
    /\ op = "uart_init" /\ pc = "L144" /\ ~sercom.SB_ENABLE /\ sercom.ENABLE
    /\ everEnabled /\ NVIC_pending

\* uart_init is between its first register access and the hardware's
\* confirmation of the final enable
InitInProgress ==
    /\ op = "uart_init" /\ pc # "L75"
    /\ ~(pc = "L144" /\ Operational(sercom))

\* C17 (as claimed): while a uart_init called on a peripheral armed by an
\* earlier uart_init is in progress, SERCOM1_Handler dispatches no byte to
\* uart_byte_received_cb.
C17_NoDispatchDuringInit == ~(InitInProgress /\ hpc = "H166")

\* C17 (amended): uart_init does not mask the receive interrupt, so during a
\* re-initialisation SERCOM1_Handler can still dispatch a byte until the
\* software reset is written at line 80; from that write until the hardware
\* confirms the final enable the handler reads no data and dispatches nothing.
C17_NoDispatchAfterReset ==
    (InitInProgress /\ pc \notin {"L76", "L79", "L80"})
        => hpc \notin {"H165", "H166"}

\* C17 witness: uart_init has cleared the enable bit of the running
\* peripheral, and the handler is about to call the callback
C17_Witness ==
    /\ op = "uart_init" /\ pc = "L79" /\ ~sercom.ENABLE /\ everEnabled
    /\ hpc = "H166"

\* the registers uart_init(p, b) leaves, the receive flag and data apart
\* (a character may already have arrived)
InitResult(b) ==
    [ENABLE |-> TRUE, MODE |-> "USART_INT_CLK", BAUD |-> BaudReg(b),
     TXEN |-> TRUE, RXEN |-> TRUE, CHSIZE |-> 0,
     SB_ENABLE |-> FALSE, SB_SWRST |-> FALSE, SB_CTRLB |-> FALSE,
     INTEN_RXC |-> TRUE, RXC |-> sercom.RXC, RXDATA |-> sercom.RXDATA,
     TXDATA |-> Empty]

\* C18: the state in which uart_init(p, b) returns is determined by p, b and
\* the pin state at the call alone, not by what the peripheral held before:
\* registers, interrupt enables and clocks as one call from power-up leaves
\* them, pins attached and uart_active true if p, pins and uart_active as at
\* the call if not.  So a second uart_init(p, b) ends as the first did, and
\* uart_init(p, b2) after uart_init(p, b1) ends as uart_init(p, b2) alone.
C18_ReinitIdempotent ==
    InitReturns =>
        /\ sercom = InitResult(baudrate)
        /\ NVIC_SERCOM1 /\ busClock /\ gclkChannel
        /\ IF configure_pinmux
           THEN BothPinsUart /\ uart_active
           ELSE <<PA00, PA01, uart_active>> = atCall

\* C18 witness: uart_init(false, 9600), called on attached pins right after
\* another uart_init returned, is returning
C18_Witness ==
    /\ InitReturns /\ prevOp = "uart_init" /\ lastOp = "uart_init"
    /\ everEnabled /\ baudrate = 9600 /\ ~configure_pinmux /\ uart_active

\* C19: for the clocks 48 MHz and 8 MHz and every baud rate with
\* 0 < baud <= clock / 16, no step of the baud computation wraps:
\* baudrate * m4 - 1 stays at or above zero, every product and sum stays
\* below 2^32, and op1 is at most 65535.
C19_BaudNeverWraps ==
    (pc = "L123" /\ CONF_CPU_FREQUENCY \in TargetClocks
                 /\ baudrate > 0 /\ 16 * baudrate <= CONF_CPU_FREQUENCY)
        => ~BaudWraps(baudrate)

====
